---- MODULE Spec2Model ----
(***************************************************************************)
(* ImageWrangler (src/main.py): the batch image processor.                 *)
(*                                                                         *)
(* ImageProcessor is a worker thread that walks a list of file paths and   *)
(* resizes, inverts or renames each one, reporting through four signals.   *)
(* ImageWranglerApp is the window that collects the inputs, validates them *)
(* and starts a processor.                                                 *)
(*                                                                         *)
(* Text (file paths, rename texts) is a sequence of one-character strings, *)
(* so that str.replace, pathlib's stem/suffix and os.path.join are         *)
(* computed character by character as Python computes them (POSIX rules).  *)
(* An image is one uniform colour: a mode, its channel values and a size.  *)
(***************************************************************************)
EXTENDS Integers, Sequences, FiniteSets, TLC

VARIABLES
    selected_files,      \* ImageWranglerApp.selected_files: the list object
    output_directory,    \* ImageWranglerApp.output_directory
    use_original_dir_cb, \* the check box "Use original directory"
    replace_input,       \* the three rename line edits
    with_input,
    prefix_input,
    resize_format,       \* combo box of the resize group
    invert_format,       \* combo box of the invert group
    width_input,         \* spin boxes of the resize group
    height_input,
    enabled,             \* which buttons are enabled
    progress_bar,        \* value shown by the progress bar
    current_progress,    \* ImageWranglerApp.current_progress
    threads,             \* every ImageProcessor constructed so far, in order
    queue,               \* signals emitted by the threads, not yet delivered
    fs,                  \* the file system: path -> file content
    numpy_available,     \* whether numpy can be imported in this installation
    edits,               \* how many times the user has edited an input field
    last                 \* what the most recent item's transform did

vars == <<selected_files, output_directory, use_original_dir_cb, replace_input,
          with_input, prefix_input, resize_format, invert_format, width_input,
          height_input, enabled, progress_bar, current_progress, threads,
          queue, fs, numpy_available, edits, last>>

gui_inputs == <<output_directory, use_original_dir_cb, replace_input,
                with_input, prefix_input, resize_format, invert_format,
                width_input, height_input>>

(***************************************************************************)
(* Text                                                                    *)
(***************************************************************************)

\* "abc" as <<"a","b","c">> for the few literals the code uses.
EmptyText == <<>>

\* s[k..] starts with t (1-based k).
StartsWithAt(s, t, k) ==
    /\ k + Len(t) - 1 <= Len(s)
    /\ \A j \in 1..Len(t) : s[k + j - 1] = t[j]

\* str.replace(old, new) for a non-empty old: left to right, non-overlapping.
RECURSIVE ReplaceFrom(_, _, _, _)
ReplaceFrom(s, old, new, k) ==
    IF k > Len(s) THEN <<>>
    ELSE IF StartsWithAt(s, old, k)
         THEN new \o ReplaceFrom(s, old, new, k + Len(old))
         ELSE <<s[k]>> \o ReplaceFrom(s, old, new, k + 1)

StrReplace(s, old, new) == ReplaceFrom(s, old, new, 1)

\* str.rfind(c) + 1: the last position of character c in s, 0 when absent.
RFind(s, c) ==
    LET hits == {k \in 1..Len(s) : s[k] = c}
    IN  IF hits = {} THEN 0 ELSE CHOOSE k \in hits : \A j \in hits : j <= k

(***************************************************************************)
(* Paths: os.path and pathlib.Path on absolute POSIX paths                 *)
(***************************************************************************)

\* os.path.basename: what follows the last "/".
Basename(p) == SubSeq(p, RFind(p, "/") + 1, Len(p))

\* str(Path(p).parent) for an absolute, normalised file path.
PathParent(p) ==
    LET i == RFind(p, "/")
    IN  IF i <= 1 THEN SubSeq(p, 1, i) ELSE SubSeq(p, 1, i - 1)

\* Path(p).suffix: from the last "." of the name, unless the "." is the first
\* or the last character of the name.
PathSuffix(p) ==
    LET name == Basename(p)
        i    == RFind(name, ".")
    IN  IF 1 < i /\ i < Len(name) THEN SubSeq(name, i, Len(name)) ELSE <<>>

\* Path(p).stem: the name without its suffix.
PathStem(p) ==
    LET name == Basename(p)
        i    == RFind(name, ".")
    IN  IF 1 < i /\ i < Len(name) THEN SubSeq(name, 1, i - 1) ELSE name

\* os.path.join(a, b): an absolute b discards a.
OsPathJoin(a, b) ==
    IF Len(b) > 0 /\ b[1] = "/" THEN b
    ELSE IF a = <<>> \/ a[Len(a)] = "/" THEN a \o b
    ELSE a \o <<"/">> \o b

(***************************************************************************)
(* Output formats                                                          *)
(***************************************************************************)

\* The three names the combo boxes offer (main.py:316, 329).
GuiFormats == {"JPEG", "PNG", "WEBP"}

\* str.upper() and str.lower() on a format name.
Upper(f) ==
    CASE f \in {"JPEG", "jpeg"} -> "JPEG"
      [] f \in {"PNG", "png"}   -> "PNG"
      [] f \in {"WEBP", "webp"} -> "WEBP"

Lower(f) ==
    CASE f \in {"JPEG", "jpeg"} -> "jpeg"
      [] f \in {"PNG", "png"}   -> "png"
      [] f \in {"WEBP", "webp"} -> "webp"

\* A lower-case format name as text.
FormatText(f) ==
    CASE f = "jpeg" -> <<"j", "p", "e", "g">>
      [] f = "png"  -> <<"p", "n", "g">>
      [] f = "webp" -> <<"w", "e", "b", "p">>

\* '.jpg' if output_format.upper() == 'JPEG' else f'.{output_format.lower()}'
OutputExtension(output_format) ==
    IF Upper(output_format) = "JPEG"
    THEN <<".", "j", "p", "g">>
    ELSE <<".">> \o FormatText(Lower(output_format))

(***************************************************************************)
(* Images.  An image is [mode, px, size]: px holds the channel values of   *)
(* its (uniform) colour.  L <<v>>, LA <<v,a>>, RGB <<r,g,b>>,              *)
(* RGBA <<r,g,b,a>>, P <<palette index>>, I;16 / I / F <<sample>>.         *)
(***************************************************************************)

Modes == {"L", "RGB", "RGBA", "LA", "P", "I;16", "I", "F"}

\* The palette of the P-mode images, with its transparency: index -> RGBA.
Palette(i) == IF i = 1 THEN <<200, 50, 0, 255>> ELSE <<0, 0, 0, 0>>

Clip8(v) == IF v < 0 THEN 0 ELSE IF v > 255 THEN 255 ELSE v

\* Pillow's MULDIV255 / BLEND8: division by 255, rounded.
Div255(x) == ((x + 128) + ((x + 128) \div 256)) \div 256

\* Image.convert(mode) for the conversions the code asks for.  I, F and I;16
\* samples are clipped to 0..255 on the way to L (I;16 and the integer modes
\* reach RGB through their base mode L).
ToL(img) ==
    CASE img.mode = "L"                  -> img
      [] img.mode \in {"I", "F", "I;16"} -> [img EXCEPT !.mode = "L", !.px = <<Clip8(img.px[1])>>]

ConvertRGB(img) ==
    CASE img.mode = "RGB"  -> img
      [] img.mode = "RGBA" -> [img EXCEPT !.mode = "RGB", !.px = SubSeq(img.px, 1, 3)]
      [] img.mode \in {"L", "LA"} ->
            [img EXCEPT !.mode = "RGB", !.px = <<img.px[1], img.px[1], img.px[1]>>]
      [] img.mode = "P"    -> [img EXCEPT !.mode = "RGB", !.px = SubSeq(Palette(img.px[1]), 1, 3)]
      [] OTHER             ->
            LET grey == ToL(img)
            IN  [grey EXCEPT !.mode = "RGB", !.px = <<grey.px[1], grey.px[1], grey.px[1]>>]

ConvertRGBA(img) ==
    CASE img.mode = "P"    -> [img EXCEPT !.mode = "RGBA", !.px = Palette(img.px[1])]
      [] img.mode = "RGBA" -> img

\* Image.new('RGB', size, (255, 255, 255))
WhiteBackground(size) == [mode |-> "RGB", px |-> <<255, 255, 255>>, size |-> size]

\* background.paste(img, mask=alpha): each channel blended by the mask.
\* img has at least three colour bytes per pixel (RGBA as is, LA stored L,L,L,A).
ColourBytes(img) ==
    IF img.mode \in {"L", "LA"} THEN <<img.px[1], img.px[1], img.px[1]>>
    ELSE SubSeq(img.px, 1, 3)

PasteWithMask(background, img, mask) ==
    [background EXCEPT !.px =
        [c \in 1..3 |-> Div255(background.px[c] * (255 - mask) + ColourBytes(img)[c] * mask)]]

\* background.paste(img) with no mask: the colour bytes are copied over.
PasteNoMask(background, img) == [background EXCEPT !.px = ColourBytes(img)]

\* img.split()[-1]: the value of the last band.
LastBand(img) == img.px[Len(img.px)]

\* ImageOps.invert on an RGB image.
Invert(img) == [img EXCEPT !.px = [c \in 1..3 |-> 255 - img.px[c]]]

\* Image.resize((width, height), LANCZOS) of a uniform image.  A resize to the
\* image's own size is a copy.  LA and RGBA are premultiplied by alpha, resampled
\* and divided back; P is resampled with NEAREST and keeps its index.
Unpremultiply(v, a) == IF a = 255 \/ a = 0 THEN v ELSE Clip8((255 * v) \div a)

Resize(img, width, height) ==
    IF img.size = <<width, height>> THEN img
    ELSE IF img.mode \in {"LA", "RGBA"}
    THEN LET a == LastBand(img)
             n == Len(img.px)
         IN  [img EXCEPT !.size = <<width, height>>,
                         !.px = [c \in 1..n |->
                                   IF c = n THEN a
                                   ELSE Unpremultiply(Div255(img.px[c] * a), a)]]
    ELSE [img EXCEPT !.size = <<width, height>>]

(***************************************************************************)
(* The file system.  fs maps the path of every existing file to its        *)
(* content; the directories are fixed (the program creates none).          *)
(* A content is [kind |-> "garbage"] (bytes no decoder accepts) or         *)
(* [kind |-> "image", img, container, written_by]: two contents are the    *)
(* same bytes exactly when they are equal, and a file Pillow encoded is    *)
(* never the bytes of an original.                                         *)
(***************************************************************************)

ExistingDirs == {<<"/">>, <<"/", "x">>, <<"/", "y">>, <<"/", "o">>}

\* os.path.isdir, also for a path written with a trailing "/".
IsDir(p) ==
    \/ p \in ExistingDirs
    \/ Len(p) > 1 /\ p[Len(p)] = "/" /\ SubSeq(p, 1, Len(p) - 1) \in ExistingDirs

\* open(p, 'wb') succeeds: p names no directory and its directory exists.
CanWrite(p) == ~IsDir(p) /\ PathParent(p) \in ExistingDirs

NoImage == [mode |-> "none", px |-> <<>>, size |-> <<0, 0>>]

\* What a transform did: the ghost record kept in the variable last.
Outcome(ok, err, newfs, at_op, encoded, path) ==
    [ok |-> ok, err |-> err, fs |-> newfs, at_op |-> at_op,
     encoded |-> encoded, output_path |-> path]

\* Image.open(file_path): the error it raises, "" when it opens.
OpenError(files, file_path) ==
    IF file_path \notin DOMAIN files THEN "FileNotFoundError"
    ELSE IF files[file_path].kind # "image" THEN "UnidentifiedImageError"
    ELSE ""

\* The modes each encoder writes (Pillow's JPEG and PNG plugins; the WebP plugin
\* converts what it cannot write itself).
SaveAccepts(FORMAT, mode) ==
    CASE FORMAT = "JPEG" -> mode \in {"L", "RGB"}
      [] FORMAT = "PNG"  -> mode \in {"L", "LA", "P", "RGB", "RGBA", "I", "I;16"}
      [] FORMAT = "WEBP" -> TRUE

\* fs with file p created or overwritten.
WriteFile(files, p, content) ==
    [q \in DOMAIN files \cup {p} |-> IF q = p THEN content ELSE files[q]]

Saved(img, FORMAT) ==
    [kind |-> "image", img |-> img, container |-> FORMAT, written_by |-> "Pillow"]

\* img.save(output_path, format=FORMAT): [err, fs].  Pillow opens the file for
\* writing first; when the encoder then refuses the mode, a file it created is
\* removed and a file that existed is left truncated.
SaveFile(files, img, output_path, FORMAT) ==
    IF ~CanWrite(output_path)
    THEN [err |-> "OSError: cannot open output", fs |-> files]
    ELSE IF ~SaveAccepts(FORMAT, img.mode)
    THEN [err |-> "OSError: cannot write mode",
          fs  |-> IF output_path \in DOMAIN files
                  THEN WriteFile(files, output_path, [kind |-> "garbage"])
                  ELSE files]
    ELSE [err |-> "", fs |-> WriteFile(files, output_path, Saved(img, FORMAT))]

(***************************************************************************)
(* ImageProcessor: output paths                                            *)
(***************************************************************************)

\* "replace, then prefix" of _get_output_path (lines 195-199).
RenamedBase(stem, kwargs) ==
    LET replaced == IF kwargs.replace_text # <<>>
                    THEN StrReplace(stem, kwargs.replace_text, kwargs.with_text)
                    ELSE stem
    IN  IF kwargs.prefix_text # <<>> THEN kwargs.prefix_text \o replaced ELSE replaced

\* The output directory both path derivations choose.
OutputDirFor(file_path, output_dir) ==
    IF output_dir = <<>> THEN PathParent(file_path) ELSE output_dir

\* ImageProcessor._get_output_path
GetOutputPath(file_path, output_format, kwargs, output_dir) ==
    OsPathJoin(OutputDirFor(file_path, output_dir),
               RenamedBase(PathStem(file_path), kwargs) \o OutputExtension(output_format))

\* new_name of _rename_file (lines 150-156).
RenameNewName(file_path, kwargs) ==
    LET original_name == PathStem(file_path)
        replaced == IF kwargs.replace_text # <<>>
                    THEN StrReplace(original_name, kwargs.replace_text, kwargs.with_text)
                    ELSE original_name
    IN  IF kwargs.prefix_text # <<>> THEN kwargs.prefix_text \o replaced ELSE replaced

\* new_extension of _rename_file (lines 159-163).
RenameNewExtension(file_path, kwargs) ==
    IF kwargs.preserve_format THEN PathSuffix(file_path)
    ELSE OutputExtension(kwargs.format)

\* output_path of _rename_file (lines 165-171).
RenameOutputPath(file_path, kwargs, output_dir) ==
    LET dir == IF output_dir = <<>> THEN PathParent(file_path) ELSE output_dir
    IN  OsPathJoin(dir, RenameNewName(file_path, kwargs) \o RenameNewExtension(file_path, kwargs))

(***************************************************************************)
(* ImageProcessor: the three transforms.  Each takes the processor's       *)
(* kwargs and output_dir, the file path and the file system, and gives an  *)
(* Outcome: the new file system when it returns, the error when it raises. *)
(***************************************************************************)

\* NormalizeForResize that only knows I;16.
NormalizeOnlyI16(img, numpy_ok) ==
    IF img.mode = "I;16"
    THEN IF numpy_ok
         THEN [img EXCEPT !.mode = "L", !.px = <<(img.px[1] \div 256) % 256>>]
         ELSE ConvertRGB(img)
    ELSE img

\* _resize_image, lines 65-82: I;16 is scaled down through numpy, I and F are
\* converted to L; if that raises, the image is converted to RGB instead.
\* numpy_ok says whether "import numpy" and the array round trip succeed.
NormalizeForResize(img, numpy_ok) ==
    IF img.mode \in {"I;16", "I", "F"}
    THEN IF img.mode = "I;16"
         THEN IF numpy_ok
              THEN [img EXCEPT !.mode = "L", !.px = <<(img.px[1] \div 256) % 256>>]
              ELSE ConvertRGB(img)
         ELSE ToL(img)
    ELSE img

\* _resize_image, lines 88-105: the colour model for the target container.
FinalizeColour(resized_img, output_format) ==
    IF Upper(output_format) = "JPEG"
    THEN IF resized_img.mode \in {"RGBA", "LA", "P"}
         THEN LET rgba == IF resized_img.mode = "P" THEN ConvertRGBA(resized_img)
                          ELSE resized_img
                  background == WhiteBackground(rgba.size)
              IN  IF rgba.mode = "RGBA"
                  THEN PasteWithMask(background, rgba, LastBand(rgba))
                  ELSE PasteNoMask(background, rgba)
         ELSE IF resized_img.mode = "L" THEN ConvertRGB(resized_img)
         ELSE IF resized_img.mode # "RGB" THEN ConvertRGB(resized_img)
         ELSE resized_img
    ELSE resized_img

\* ImageProcessor._resize_image
ResizeImage(kwargs, output_dir, file_path, files, numpy_ok) ==
    LET open_error == OpenError(files, file_path)
        img        == NormalizeForResize(files[file_path].img, numpy_ok)
        resized    == Resize(img, kwargs.width, kwargs.height)
        final      == FinalizeColour(resized, kwargs.format)
        path       == GetOutputPath(file_path, kwargs.format, kwargs, output_dir)
        saved      == SaveFile(files, final, path, Upper(kwargs.format))
    IN  IF open_error # "" THEN Outcome(FALSE, open_error, files, NoImage, NoImage, <<>>)
        ELSE Outcome(saved.err = "", saved.err, saved.fs, img, final, path)

\* _invert_image, lines 128-135: the image ImageOps.invert is applied to.
InvertInput(img) ==
    IF img.mode = "RGBA"
    THEN PasteWithMask(WhiteBackground(img.size), img, img.px[4])
    ELSE IF img.mode # "RGB" THEN ConvertRGB(img) ELSE img

\* ImageProcessor._invert_image
InvertImage(kwargs, output_dir, file_path, files) ==
    LET open_error == OpenError(files, file_path)
        rgb        == InvertInput(files[file_path].img)
        inverted   == Invert(rgb)
        path       == GetOutputPath(file_path, kwargs.format, kwargs, output_dir)
        saved      == SaveFile(files, inverted, path, Upper(kwargs.format))
    IN  IF open_error # "" THEN Outcome(FALSE, open_error, files, NoImage, NoImage, <<>>)
        ELSE Outcome(saved.err = "", saved.err, saved.fs, rgb, inverted, path)

\* shutil.copy2(src, dst): a dst that is a directory receives the file under
\* its own name; copying a file onto itself raises SameFileError.
Copy2Target(src, dst) == IF IsDir(dst) THEN OsPathJoin(dst, Basename(src)) ELSE dst

Copy2Error(files, src, dst) ==
    LET target == Copy2Target(src, dst)
    IN  IF src \notin DOMAIN files THEN "FileNotFoundError"
        ELSE IF target = src THEN "SameFileError"
        ELSE IF ~CanWrite(target) THEN "OSError: cannot open output"
        ELSE ""

\* _rename_file, lines 178-184: the image saved when the format is not preserved.
RenameReencoded(img, output_format) ==
    IF Upper(output_format) = "JPEG" /\ img.mode \in {"RGBA", "LA"}
    THEN IF img.mode = "RGBA"
         THEN PasteWithMask(WhiteBackground(img.size), img, LastBand(img))
         ELSE PasteNoMask(WhiteBackground(img.size), img)
    ELSE img

\* RenameFile that decodes and saves the image whatever preserve_format says.
RenameFileReencoding(kwargs, output_dir, file_path, files) ==
    LET path       == RenameOutputPath(file_path, kwargs, output_dir)
        open_error == OpenError(files, file_path)
        final      == files[file_path].img
        saved      == SaveFile(files, final, path, "PNG")
    IN  IF open_error # "" THEN Outcome(FALSE, open_error, files, NoImage, NoImage, path)
        ELSE Outcome(saved.err = "", saved.err, saved.fs, NoImage, final, path)

\* ImageProcessor._rename_file
RenameFile(kwargs, output_dir, file_path, files) ==
    LET path == RenameOutputPath(file_path, kwargs, output_dir)
    IN  IF kwargs.preserve_format
        THEN LET copy_error == Copy2Error(files, file_path, path)
             IN  IF copy_error # "" THEN Outcome(FALSE, copy_error, files, NoImage, NoImage, path)
                 ELSE Outcome(TRUE, "",
                              WriteFile(files, Copy2Target(file_path, path), files[file_path]),
                              NoImage, NoImage, path)
        ELSE LET open_error == OpenError(files, file_path)
                 final      == RenameReencoded(files[file_path].img, kwargs.format)
                 saved      == SaveFile(files, final, path, Upper(kwargs.format))
             IN  IF open_error # "" THEN Outcome(FALSE, open_error, files, NoImage, NoImage, path)
                 ELSE Outcome(saved.err = "", saved.err, saved.fs, NoImage, final, path)

\* run, lines 39-44: the transform the operation selects.
Transform(operation, kwargs, output_dir, file_path, files, numpy_ok) ==
    CASE operation = "resize" -> ResizeImage(kwargs, output_dir, file_path, files, numpy_ok)
      [] operation = "invert" -> InvertImage(kwargs, output_dir, file_path, files)
      [] operation = "rename" -> RenameFile(kwargs, output_dir, file_path, files)
      [] OTHER -> Outcome(TRUE, "", files, NoImage, NoImage, <<>>)

(***************************************************************************)
(* ImageProcessor.run.  A thread is [operation, output_dir, kwargs, pc, i, *)
(* total_files, events, raised]; its files attribute is the list object    *)
(* the application passed, i.e. selected_files itself.  events is every    *)
(* signal the thread has emitted, raised[j] whether the transform of       *)
(* iteration j raised.                                                     *)
(***************************************************************************)

\* The signals of ImageProcessor (lines 20-23).
StatusProcessing(name) == [sig |-> "status_updated", text |-> "Processing", name |-> name]
StatusError(name, reason) ==
    [sig |-> "status_updated", text |-> "Error processing", name |-> name, reason |-> reason]
StatusComplete == [sig |-> "status_updated", text |-> "Processing complete!"]
ProgressUpdated(percent) == [sig |-> "progress_updated", value |-> percent]
ProgressCountUpdated(current, total) ==
    [sig |-> "progress_count_updated", current |-> current, total |-> total]
FinishedProcessing == [sig |-> "finished_processing"]

\* The quotients k/100 whose double-precision product (k/100)*100 falls just
\* below k: 0.29*100, 0.57*100 and 0.58*100 are 28.999..., 56.999..., 57.999...
FloatShort == {29, 57, 58}

\* Percent rounded to the nearest integer.
PercentRounded(count, total) == (200 * count + total) \div (2 * total)

\* int((i + 1) / total_files * 100) in double precision, count = i + 1 <= total:
\* the exact quotient truncated, one less where the product falls short.
Percent(count, total) ==
    LET exact == (100 * count) \div total
    IN  IF (100 * count) % total = 0 /\ exact \in FloatShort THEN exact - 1 ELSE exact

\* ItemSignals with the except clause reporting nothing.
ItemSignalsSilentError(file_path, ok, err, count, total) ==
    <<StatusProcessing(Basename(file_path))>> \o
    ( IF ~ok \/ total = 0 THEN <<>>
      ELSE <<ProgressUpdated(Percent(count, total)), ProgressCountUpdated(count, total)>> )

\* run, lines 36-51: the signals of one iteration, given what the transform did.
ItemSignals(file_path, ok, err, count, total) ==
    <<StatusProcessing(Basename(file_path))>> \o
    ( IF ~ok THEN <<StatusError(Basename(file_path), err)>>
      ELSE IF total = 0 THEN <<StatusError(Basename(file_path), "division by zero")>>
      ELSE <<ProgressUpdated(Percent(count, total)), ProgressCountUpdated(count, total)>> )

\* run, lines 53-54.
FinalSignals == <<StatusComplete, FinishedProcessing>>

Queued(t, signals) == [k \in 1..Len(signals) |-> [thread |-> t, signal |-> signals[k]]]

\* ImageProcessor(files, operation, output_dir, **kwargs) followed by start().
NewThread(operation, output_dir, kwargs) ==
    [operation |-> operation, output_dir |-> output_dir, kwargs |-> kwargs,
     pc |-> "ready", i |-> 0, total_files |-> 0, events |-> <<>>, raised |-> <<>>]

NoItem == [thread |-> 0, index |-> 0, file_path |-> <<>>, operation |-> "none",
           format |-> "none", before |-> [kind |-> "none"], ok |-> FALSE, err |-> "",
           at_op |-> NoImage, encoded |-> NoImage, output_path |-> <<>>]

\* run, line 33: the thread begins and reads the length of its list.
RunStart(t) ==
    /\ threads[t].pc = "ready"
    /\ threads' = [threads EXCEPT ![t].pc = "loop",
                                  ![t].total_files = Len(selected_files)]
    /\ UNCHANGED <<selected_files, gui_inputs, enabled, progress_bar,
                   current_progress, queue, fs, numpy_available, last, edits>>

\* run, lines 35-51: one iteration of the loop.
RunItem(t) ==
    LET th == threads[t]
    IN  /\ th.pc = "loop"
        /\ th.i < Len(selected_files)
        /\ LET file_path == selected_files[th.i + 1]
               res == Transform(th.operation, th.kwargs, th.output_dir, file_path, fs,
                                numpy_available)
               signals == ItemSignals(file_path, res.ok, res.err, th.i + 1, th.total_files)
           IN  /\ threads' = [threads EXCEPT ![t].i = th.i + 1,
                                             ![t].events = th.events \o signals,
                                             ![t].raised = Append(th.raised, ~res.ok)]
               /\ queue' = queue \o Queued(t, signals)
               /\ fs' = res.fs
               /\ last' = [thread |-> t, index |-> th.i + 1, file_path |-> file_path,
                           operation |-> th.operation, format |-> th.kwargs.format,
                           before |-> IF file_path \in DOMAIN fs THEN fs[file_path]
                                      ELSE [kind |-> "none"],
                           ok |-> res.ok, err |-> res.err, at_op |-> res.at_op,
                           encoded |-> res.encoded, output_path |-> res.output_path]
        /\ UNCHANGED <<selected_files, gui_inputs, enabled, progress_bar,
                       current_progress, numpy_available, edits>>

\* RunFinish that emits the completion signal only after a last item that
\* succeeded.
RunFinishUnlessFailed(t) ==
    LET th == threads[t]
        failed == th.i > 0 /\ th.raised[th.i]
        signals == IF failed THEN <<StatusComplete>> ELSE FinalSignals
    IN  /\ th.pc = "loop"
        /\ th.i >= Len(selected_files)
        /\ threads' = [threads EXCEPT ![t].pc = "done",
                                      ![t].events = th.events \o signals]
        /\ queue' = queue \o Queued(t, signals)
        /\ UNCHANGED <<selected_files, gui_inputs, enabled, progress_bar,
                       current_progress, fs, numpy_available, last, edits>>

\* run, lines 53-54: the list is exhausted.
RunFinish(t) ==
    LET th == threads[t]
    IN  /\ th.pc = "loop"
        /\ th.i >= Len(selected_files)
        /\ threads' = [threads EXCEPT ![t].pc = "done",
                                      ![t].events = th.events \o FinalSignals]
        /\ queue' = queue \o Queued(t, FinalSignals)
        /\ UNCHANGED <<selected_files, gui_inputs, enabled, progress_bar,
                       current_progress, fs, numpy_available, last, edits>>

ThreadStep ==
    \/ \E t \in DOMAIN threads : RunStart(t)
    \/ \E t \in DOMAIN threads : RunItem(t)
    \/ \E t \in DOMAIN threads : RunFinish(t)

(***************************************************************************)
(* The processor on its own: any job a caller can construct, then run.     *)
(***************************************************************************)

MaxFiles == 3

SeqsUpTo(S, n) == UNION {[1..k -> S] : k \in 0..n}

\* Source files: two images of the same name in two directories, a file with
\* no extension that is not an image, and a selected file that no longer exists.
FileA == <<"/", "x", "/", "a", "b", ".", "P">>
FileB == <<"/", "y", "/", "a", "b", ".", "P">>
FileC == <<"/", "x", "/", "b">>
FileD == <<"/", "y", "/", "c", ".", "j">>
RunFiles == {FileA, FileB, FileC, FileD}

Original(mode, px) ==
    [kind |-> "image", img |-> [mode |-> mode, px |-> px, size |-> <<4, 3>>],
     container |-> "PNG", written_by |-> "original"]

RunFs ==
    [p \in {FileA, FileB, FileC} |->
        CASE p = FileA -> Original("RGBA", <<10, 100, 250, 128>>)
          [] p = FileB -> Original("L", <<100>>)
          [] p = FileC -> [kind |-> "garbage"]]

Rule(r, w, p) == [replace_text |-> r, with_text |-> w, prefix_text |-> p]

\* Rename rules: none, a replace, a prefix, both (the prefix holding the text
\* the replace looks for), a replace that empties the stem, a prefix that
\* starts with the path separator.
RunRules ==
    { Rule(<<>>, <<>>, <<>>),
      Rule(<<"a">>, <<"c">>, <<>>),
      Rule(<<>>, <<"c">>, <<"p">>),
      Rule(<<"p">>, <<"a">>, <<"p">>),
      Rule(<<"b">>, <<>>, <<>>),
      Rule(<<>>, <<>>, <<"/">>) }

RunOutputDirs == {<<>>, <<"/", "o">>, <<"/", "x">>}

\* Operation, format and preserve_format; a key the caller leaves out takes
\* the default kwargs.get gives it.
RunModes ==
    ([operation : {"resize", "invert"}, format : {"JPEG", "PNG", "webp"},
      preserve_format : {TRUE}])
    \cup [operation : {"rename"}, format : {"JPEG"}, preserve_format : {TRUE}]
    \cup [operation : {"rename"}, format : {"JPEG", "PNG", "webp"}, preserve_format : {FALSE}]

Kwargs(width, height, format, rule, preserve_format) ==
    [width |-> width, height |-> height, format |-> format,
     replace_text |-> rule.replace_text, with_text |-> rule.with_text,
     prefix_text |-> rule.prefix_text, preserve_format |-> preserve_format]

AllButtons(v) ==
    [select_files |-> v, clear_files |-> v, select_output |-> v,
     resize |-> v, invert |-> v, rename_only |-> v]

\* The window as __init__ leaves it.
InitWindow ==
    /\ output_directory = <<>>
    /\ use_original_dir_cb = FALSE
    /\ replace_input = <<>>
    /\ with_input = <<>>
    /\ prefix_input = <<>>
    /\ resize_format = "JPEG"
    /\ invert_format = "JPEG"
    /\ width_input = 800
    /\ height_input = 600
    /\ current_progress = 0

\* A started processor and nothing delivered yet.
Started(operation, output_dir, kwargs) ==
    /\ InitWindow
    /\ enabled = AllButtons(FALSE)
    /\ progress_bar = 0
    /\ threads = <<NewThread(operation, output_dir, kwargs)>>
    /\ queue = <<>>
    /\ last = NoItem
    /\ edits = 0

InitRun ==
    /\ selected_files \in SeqsUpTo(RunFiles, MaxFiles)
    /\ fs = RunFs
    /\ numpy_available = TRUE
    /\ \E m \in RunModes, rule \in RunRules, dir \in RunOutputDirs :
          Started(m.operation, dir, Kwargs(800, 600, m.format, rule, m.preserve_format))

SpecRun == InitRun /\ [][ThreadStep]_vars

(***************************************************************************)
(* The processor on one image of every pixel mode: resize and invert.      *)
(***************************************************************************)

Pixel(mode, px) == [mode |-> mode, px |-> px, size |-> <<4, 3>>]

\* Decoded images: every mode Image.open can give the transforms, opaque,
\* translucent and transparent where the mode has alpha; samples inside and
\* outside 0..255 where the mode is wider than eight bits.
PixelImages ==
    { Pixel("L", <<100>>), Pixel("L", <<0>>),
      Pixel("RGB", <<10, 100, 250>>),
      Pixel("RGBA", <<10, 100, 250, 128>>), Pixel("RGBA", <<10, 100, 250, 0>>),
      Pixel("RGBA", <<10, 100, 250, 255>>),
      Pixel("LA", <<100, 128>>), Pixel("LA", <<0, 0>>), Pixel("LA", <<100, 255>>),
      Pixel("P", <<1>>), Pixel("P", <<0>>),
      Pixel("I;16", <<30000>>), Pixel("I;16", <<200>>),
      Pixel("I", <<300>>), Pixel("I", <<100>>),
      Pixel("F", <<100>>), Pixel("F", <<-5>>) }

\* Target sizes: the default of the spin boxes and the size the images have.
PixelSizes == {<<800, 600>>, <<4, 3>>}

InitPixel ==
    /\ selected_files = <<FileA>>
    /\ \E img \in PixelImages :
          fs = [p \in {FileA} |-> [kind |-> "image", img |-> img, container |-> "PNG",
                                  written_by |-> "original"]]
    /\ numpy_available \in BOOLEAN
    /\ \E operation \in {"resize", "invert"}, format \in GuiFormats, size \in PixelSizes :
          Started(operation, <<"/", "o">>,
                  Kwargs(size[1], size[2], format, Rule(<<>>, <<>>, <<>>), TRUE))

SpecPixel == InitPixel /\ [][ThreadStep]_vars

(***************************************************************************)
(* The processor on lists of every length up to MaxTotal: the percentages. *)
(***************************************************************************)

MaxTotal == 100

\* n times the same image, the item at position bad (if any) not an image.
PercentFiles(n, bad) == [k \in 1..n |-> IF k = bad THEN FileC ELSE FileB]

InitPercent ==
    /\ \E n \in 1..MaxTotal, bad \in {0, 2} : selected_files = PercentFiles(n, bad)
    /\ fs = RunFs
    /\ numpy_available = TRUE
    /\ Started("invert", <<"/", "o">>, Kwargs(800, 600, "PNG", Rule(<<>>, <<>>, <<>>), TRUE))

SpecPercent == InitPercent /\ [][ThreadStep]_vars

(***************************************************************************)
(* ImageWranglerApp: the window.  Every handler is one action; a handler   *)
(* that only shows a warning leaves the state as it is.  The line edits,   *)
(* combo boxes, spin boxes and the check box are never disabled.           *)
(***************************************************************************)

MaxSelected == 2   \* files the user selects at most
MaxBatches == 2    \* processors started at most
MaxEdits == 1      \* edits of the rename, format and size inputs at most

GuiFiles == {FileA}
GuiDirs == {<<"/", "o">>}
GuiReplaceTexts == {<<>>, <<"a">>}
GuiWithTexts == {<<>>, <<"c">>}
GuiPrefixTexts == {<<>>, <<"p">>}
GuiWidths == {800, 4}
GuiHeights == {600, 3}

\* SetButtonsEnabled that leaves the two file-list buttons enabled.
SetButtonsEnabledKeepFiles(v, use_original) ==
    [select_files |-> TRUE, clear_files |-> TRUE, select_output |-> (~use_original /\ v),
     resize |-> v, invert |-> v, rename_only |-> v]

\* _set_buttons_enabled
SetButtonsEnabled(v, use_original) ==
    [select_files |-> v, clear_files |-> v, select_output |-> (~use_original /\ v),
     resize |-> v, invert |-> v, rename_only |-> v]

\* _validate_inputs
ValidateInputs ==
    /\ selected_files # <<>>
    /\ ~(~use_original_dir_cb /\ output_directory = <<>>)

\* select_files: the dialog returns one more file (a cancelled dialog nothing).
SelectFiles ==
    /\ enabled.select_files
    /\ Len(selected_files) < MaxSelected
    /\ \E f \in GuiFiles : selected_files' = Append(selected_files, f)
    /\ UNCHANGED <<gui_inputs, enabled, progress_bar, current_progress, threads,
                   queue, fs, numpy_available, last, edits>>

\* clear_files
ClearFiles ==
    /\ enabled.clear_files
    /\ selected_files' = <<>>
    /\ UNCHANGED <<gui_inputs, enabled, progress_bar, current_progress, threads,
                   queue, fs, numpy_available, last, edits>>

\* select_output_directory
SelectOutputDirectory ==
    /\ enabled.select_output
    /\ \E directory \in GuiDirs : output_directory' = directory
    /\ UNCHANGED <<selected_files, use_original_dir_cb, replace_input, with_input,
                   prefix_input, resize_format, invert_format, width_input,
                   height_input, enabled, progress_bar, current_progress, threads,
                   queue, fs, numpy_available, last, edits>>

\* OnUseOriginalToggled that enables every button when the box is unticked.
OnUseOriginalToggledEnablesAll ==
    /\ use_original_dir_cb' = ~use_original_dir_cb
    /\ enabled' = AllButtons(~use_original_dir_cb')
    /\ UNCHANGED <<selected_files, output_directory, replace_input, with_input,
                   prefix_input, resize_format, invert_format, width_input,
                   height_input, progress_bar, current_progress, threads, queue,
                   fs, numpy_available, last, edits>>

\* The user ticks or unticks the check box: _on_use_original_toggled
OnUseOriginalToggled ==
    /\ use_original_dir_cb' = ~use_original_dir_cb
    /\ enabled' = [enabled EXCEPT !.select_output = ~use_original_dir_cb']
    /\ UNCHANGED <<selected_files, output_directory, replace_input, with_input,
                   prefix_input, resize_format, invert_format, width_input,
                   height_input, progress_bar, current_progress, threads, queue,
                   fs, numpy_available, last, edits>>

\* The user types into a rename line edit, picks a format or sets a size.
EditRename ==
    /\ edits < MaxEdits
    /\ edits' = edits + 1
    /\ \E r \in GuiReplaceTexts, w \in GuiWithTexts, p \in GuiPrefixTexts :
          /\ <<r, w, p>> # <<replace_input, with_input, prefix_input>>
          /\ \/ r = replace_input /\ w = with_input
             \/ r = replace_input /\ p = prefix_input
             \/ w = with_input /\ p = prefix_input
          /\ replace_input' = r
          /\ with_input' = w
          /\ prefix_input' = p
    /\ UNCHANGED <<selected_files, output_directory, use_original_dir_cb,
                   resize_format, invert_format, width_input, height_input, enabled,
                   progress_bar, current_progress, threads, queue, fs,
                   numpy_available, last>>

EditFormat ==
    /\ edits < MaxEdits
    /\ edits' = edits + 1
    /\ \E f \in GuiFormats :
          \/ f # resize_format /\ resize_format' = f /\ UNCHANGED invert_format
          \/ f # invert_format /\ invert_format' = f /\ UNCHANGED resize_format
    /\ UNCHANGED <<selected_files, output_directory, use_original_dir_cb,
                   replace_input, with_input, prefix_input, width_input, height_input,
                   enabled, progress_bar, current_progress, threads, queue, fs,
                   numpy_available, last>>

EditSize ==
    /\ edits < MaxEdits
    /\ edits' = edits + 1
    /\ \E w \in GuiWidths, h \in GuiHeights :
          /\ (w = width_input) # (h = height_input)
          /\ width_input' = w
          /\ height_input' = h
    /\ UNCHANGED <<selected_files, output_directory, use_original_dir_cb,
                   replace_input, with_input, prefix_input, resize_format,
                   invert_format, enabled, progress_bar, current_progress, threads,
                   queue, fs, numpy_available, last>>

\* _start_processing
StartProcessing(operation, kwargs) ==
    /\ Len(threads) < MaxBatches
    /\ progress_bar' = 0
    /\ current_progress' = 0
    /\ enabled' = SetButtonsEnabled(FALSE, use_original_dir_cb)
    /\ threads' = Append(threads,
                         NewThread(operation,
                                   IF use_original_dir_cb THEN <<>> ELSE output_directory,
                                   kwargs))
    /\ UNCHANGED <<selected_files, gui_inputs, queue, fs, numpy_available, last, edits>>

\* The kwargs each handler passes; the processor reads a missing key with
\* kwargs.get and its default.
RenameInputs == Rule(replace_input, with_input, prefix_input)

\* resize_images
ResizeImages ==
    /\ enabled.resize
    /\ IF ValidateInputs
       THEN StartProcessing("resize",
                Kwargs(width_input, height_input, resize_format, RenameInputs, TRUE))
       ELSE UNCHANGED vars

\* invert_colors
InvertColors ==
    /\ enabled.invert
    /\ IF ValidateInputs
       THEN StartProcessing("invert", Kwargs(800, 600, invert_format, RenameInputs, TRUE))
       ELSE UNCHANGED vars

\* rename_files_only
RenameFilesOnly ==
    /\ enabled.rename_only
    /\ IF selected_files = <<>> THEN UNCHANGED vars
       ELSE IF replace_input = <<>> /\ prefix_input = <<>> THEN UNCHANGED vars
       ELSE StartProcessing("rename", Kwargs(800, 600, "JPEG", RenameInputs, TRUE))

\* The window's slots, run for the oldest signal not yet delivered:
\* progress_bar.setValue, _update_progress_count, _update_status_text and
\* _processing_finished.
DeliverSignal ==
    /\ queue # <<>>
    /\ queue' = Tail(queue)
    /\ LET signal == Head(queue).signal
       IN  CASE signal.sig = "progress_updated" ->
                    /\ progress_bar' = signal.value
                    /\ UNCHANGED <<current_progress, enabled>>
             [] signal.sig = "progress_count_updated" ->
                    /\ current_progress' = signal.current
                    /\ UNCHANGED <<progress_bar, enabled>>
             [] signal.sig = "status_updated" ->
                    UNCHANGED <<progress_bar, current_progress, enabled>>
             [] signal.sig = "finished_processing" ->
                    /\ enabled' = SetButtonsEnabled(TRUE, use_original_dir_cb)
                    /\ UNCHANGED <<progress_bar, current_progress>>
    /\ UNCHANGED <<selected_files, gui_inputs, threads, fs, numpy_available, last, edits>>

Init ==
    /\ selected_files = <<>>
    /\ InitWindow
    /\ enabled = AllButtons(TRUE)
    /\ progress_bar = -1
    /\ threads = <<>>
    /\ queue = <<>>
    /\ fs = RunFs
    /\ numpy_available = TRUE
    /\ last = NoItem
    /\ edits = 0

Next ==
    \/ SelectFiles
    \/ ClearFiles
    \/ SelectOutputDirectory
    \/ OnUseOriginalToggled
    \/ EditRename
    \/ EditFormat
    \/ EditSize
    \/ ResizeImages
    \/ InvertColors
    \/ RenameFilesOnly
    \/ DeliverSignal
    \/ ThreadStep

Spec == Init /\ [][Next]_vars

(***************************************************************************)
(* Properties of run                                                       *)
(***************************************************************************)

IsItemStatus(e) == e.sig = "status_updated" /\ e.text # "Processing complete!"
IsCount(e) == e.sig = "progress_count_updated"
IsPercent(e) == e.sig = "progress_updated"

\* The item statuses of a thread, as <<text, name>> pairs.
ItemStatuses(th) ==
    LET st == SelectSeq(th.events, IsItemStatus)
    IN  [k \in 1..Len(st) |-> <<st[k].text, st[k].name>>]

\* What the first n items must have reported: one "Processing" each, in list
\* order, followed by one "Error processing" exactly when the item raised.
RECURSIVE ExpectedStatuses(_, _, _)
ExpectedStatuses(files, raised, n) ==
    IF n = 0 THEN <<>>
    ELSE ExpectedStatuses(files, raised, n - 1)
         \o <<(<<"Processing", Basename(files[n])>>)>>
         \o (IF raised[n] THEN <<(<<"Error processing", Basename(files[n])>>)>> ELSE <<>>)

\* C1: every item is attempted once, in list order, whatever happened to the
\* items before it; an item reports one error exactly when its transform
\* raised; and run comes to its end only after the last item of the list.
C1_FailureIsolation ==
    \A t \in DOMAIN threads :
        LET th == threads[t]
        IN  /\ Len(th.raised) = th.i
            /\ th.i <= Len(selected_files)
            /\ ItemStatuses(th) = ExpectedStatuses(selected_files, th.raised, th.i)
            /\ th.pc = "done" => th.i = Len(selected_files)

\* A failed item followed by an item that succeeded, in a finished run.
C1_Witness ==
    \E t \in DOMAIN threads :
        /\ threads[t].pc = "done"
        /\ \E j \in 1..(threads[t].i - 1) : threads[t].raised[j] /\ ~threads[t].raised[j + 1]

\* C2 (as claimed): the count events of the first i items carry 1, 2, ..., i.
CountIndices(th) ==
    LET c == SelectSeq(th.events, IsCount)
    IN  [k \in 1..Len(c) |-> c[k].current]

C2_IndexPerItem ==
    \A t \in DOMAIN threads :
        CountIndices(threads[t]) = [k \in 1..threads[t].i |-> k]

\* C3: a started batch runs to Completed.  While run is under way neither final
\* signal has been emitted; every step of run takes it nearer its end (the
\* distance is at most the length of the list plus two), and run never ends
\* otherwise than by returning; once it has returned, "Processing complete!"
\* and finished_processing are the last two signals and each was emitted once.
Occurrences(seq, e) == Cardinality({k \in 1..Len(seq) : seq[k] = e})

Completed(th) ==
    /\ th.pc = "done"
    /\ Len(th.events) >= 2
    /\ th.events[Len(th.events) - 1] = StatusComplete
    /\ th.events[Len(th.events)] = FinishedProcessing
    /\ Occurrences(th.events, StatusComplete) = 1
    /\ Occurrences(th.events, FinishedProcessing) = 1

\* Steps run still has to take.
StepsLeft(th) ==
    CASE th.pc = "ready" -> Len(selected_files) + 2
      [] th.pc = "loop"  -> Len(selected_files) - th.i + 1
      [] th.pc = "done"  -> 0
      [] OTHER           -> Len(selected_files) + 3

C3_ReachesCompleted ==
    /\ [](\A t \in DOMAIN threads :
            /\ threads[t].pc \in {"ready", "loop", "done"}
            /\ StepsLeft(threads[t]) >= 0
            /\ threads[t].pc = "done" => Completed(threads[t])
            /\ threads[t].pc # "done" =>
                  /\ Occurrences(threads[t].events, StatusComplete) = 0
                  /\ Occurrences(threads[t].events, FinishedProcessing) = 0)
    /\ [][\A t \in DOMAIN threads :
            threads'[t] # threads[t]
               => /\ StepsLeft(threads[t]) > 0
                  /\ StepsLeft(threads[t])' = StepsLeft(threads[t]) - 1]_vars

\* A completed batch of at least two items in which every item failed.
C3_Witness ==
    \E t \in DOMAIN threads :
        /\ Completed(threads[t])
        /\ threads[t].i >= 2
        /\ \A j \in 1..threads[t].i : threads[t].raised[j]

(***************************************************************************)
(* Properties of the window                                                *)
(***************************************************************************)

\* The inputs are valid for an operation: files are selected, an output
\* directory is chosen or "use original directory" is ticked, and a rename has
\* a text to replace or a prefix.
ValidParameters(operation) ==
    /\ selected_files # <<>>
    /\ use_original_dir_cb \/ output_directory # <<>>
    /\ operation = "rename" => (replace_input # <<>> \/ prefix_input # <<>>)

\* C4 (as claimed): a processor is created only from valid parameters,
\* whichever operation is started.
C4_InvalidParametersAbort ==
    [][Len(threads') > Len(threads)
          => ValidParameters(threads'[Len(threads')].operation)]_vars

(***************************************************************************)
(* Properties of the transforms, stated on the most recent item (last) and *)
(* the file system it left.                                                *)
(***************************************************************************)

LastThread == threads[last.thread]

LastIsPreservingRename ==
    /\ last.index > 0
    /\ last.operation = "rename"
    /\ LastThread.kwargs.preserve_format

\* The new path of a rename that preserves the format: the chosen directory,
\* then the new base name followed by the source's own extension.
PreservedPath ==
    OsPathJoin(OutputDirFor(last.file_path, LastThread.output_dir),
               RenamedBase(PathStem(last.file_path), LastThread.kwargs)
                   \o PathSuffix(last.file_path))

\* C5 (as claimed): every preserving rename of an existing source to a path
\* that can be written leaves the source's bytes at the new path.
C5_EveryRenameProducesCopy ==
    (LastIsPreservingRename /\ last.before.kind # "none" /\ CanWrite(last.output_path))
        => /\ last.ok
           /\ last.output_path \in DOMAIN fs
           /\ fs[last.output_path] = last.before

\* C5 (amended): the new path is the new base name with the original
\* extension; the source is never changed; when the source exists and the new
\* path can be written and is not the source itself, the item succeeds and the
\* file at the new path is the source's bytes, image or not; when the new path
\* is the source itself the copy raises SameFileError.
C5_RenamePreservesBytes ==
    LastIsPreservingRename =>
        /\ last.output_path = PreservedPath
        /\ last.before.kind # "none" =>
              /\ last.file_path \in DOMAIN fs
              /\ fs[last.file_path] = last.before
        /\ (last.before.kind # "none" /\ CanWrite(last.output_path)
                /\ last.output_path # last.file_path) =>
              /\ last.ok
              /\ last.output_path \in DOMAIN fs
              /\ fs[last.output_path] = last.before
        /\ (last.before.kind # "none" /\ last.output_path = last.file_path) =>
              /\ ~last.ok
              /\ last.err = "SameFileError"

\* A file that is no image, copied under a new name.
C5_Witness ==
    /\ LastIsPreservingRename
    /\ last.ok
    /\ last.before.kind = "garbage"
    /\ last.output_path # last.file_path
    /\ last.output_path \in DOMAIN fs
    /\ fs[last.output_path] = last.before

\* C6 (as claimed): the output of an item that succeeded lies in the explicit directory when there is
\* one and beside its source otherwise, under the name "prefix, then the stem
\* with the replace applied" and the extension of the format (of the source,
\* for a rename that preserves the format).
ClaimedExtension ==
    IF last.operation = "rename" /\ LastThread.kwargs.preserve_format
    THEN PathSuffix(last.file_path)
    ELSE IF last.format \in {"JPEG", "jpeg"} THEN <<".", "j", "p", "g">>
    ELSE <<".">> \o FormatText(Lower(last.format))

ClaimedBase ==
    LET k == LastThread.kwargs
        replaced == IF k.replace_text = <<>> THEN PathStem(last.file_path)
                    ELSE StrReplace(PathStem(last.file_path), k.replace_text, k.with_text)
    IN  k.prefix_text \o replaced

C6_OutputPathDerivation ==
    (last.index > 0 /\ last.ok) =>
        /\ PathParent(last.output_path) =
              (IF LastThread.output_dir # <<>> THEN LastThread.output_dir
               ELSE PathParent(last.file_path))
        /\ Basename(last.output_path) = ClaimedBase \o ClaimedExtension

(***************************************************************************)
(* Properties of the pixel pipeline                                        *)
(***************************************************************************)

\* The decoded source image of the most recent item.
LastSource == last.before.img

LastResized ==
    /\ last.index > 0
    /\ last.operation = "resize"
    /\ last.at_op # NoImage

LastInverted ==
    /\ last.index > 0
    /\ last.operation = "invert"
    /\ last.at_op # NoImage

ColourOf(img) ==
    CASE img.mode = "RGBA" -> SubSeq(img.px, 1, 3)
      [] img.mode = "LA"   -> <<img.px[1], img.px[1], img.px[1]>>
      [] img.mode = "P"    -> SubSeq(Palette(img.px[1]), 1, 3)

AlphaOf(img) ==
    CASE img.mode = "RGBA" -> img.px[4]
      [] img.mode = "LA"   -> img.px[2]
      [] img.mode = "P"    -> Palette(img.px[1])[4]

\* The image composited onto opaque white, its own alpha the blend mask.
CompositeOnWhite(img) ==
    [c \in 1..3 |-> Div255(255 * (255 - AlphaOf(img)) + ColourOf(img)[c] * AlphaOf(img))]

\* C8 (as claimed): what resize hands the JPEG encoder is RGB; an RGBA, LA or
\* P image has been composited onto white with its own alpha, an L image
\* promoted; for another target the resampled image is encoded as it is.
C8_JpegFlattening ==
    (LastResized /\ last.encoded # NoImage) =>
        LET k == LastThread.kwargs
            resized == Resize(last.at_op, k.width, k.height)
        IN  IF Upper(last.format) = "JPEG"
            THEN /\ last.encoded.mode = "RGB"
                 /\ resized.mode \in {"RGBA", "LA", "P"}
                       => last.encoded.px = CompositeOnWhite(resized)
                 /\ resized.mode = "L"
                       => last.encoded.px = <<resized.px[1], resized.px[1], resized.px[1]>>
            ELSE last.encoded = resized

\* C9 (as claimed): invert on RGBA or LA encodes the inversion of the image
\* composited onto white; on an image without alpha, the inversion of the
\* image converted to RGB.  Either way the output is RGB.
C9_InvertAfterComposite ==
    (LastInverted /\ last.encoded # NoImage) =>
        /\ last.encoded.mode = "RGB"
        /\ LastSource.mode \in {"RGBA", "LA"} =>
              last.encoded.px = [c \in 1..3 |-> 255 - CompositeOnWhite(LastSource)[c]]
        /\ LastSource.mode \notin {"RGBA", "LA"} =>
              last.encoded.px = [c \in 1..3 |-> 255 - ConvertRGB(LastSource).px[c]]

(***************************************************************************)
(* Properties of the percentages                                           *)
(***************************************************************************)

\* The percent event at position k of a thread's events is followed by the
\* count event of the same item.
PercentAt(th, k) == IsPercent(th.events[k])

\* C10 (as claimed): every percent is index/total*100 rounded to the nearest
\* integer.
C10_PercentIsRounded ==
    \A t \in DOMAIN threads :
        \A k \in 1..Len(threads[t].events) :
            PercentAt(threads[t], k) =>
                LET v == threads[t].events[k].value
                    index == threads[t].events[k + 1].current
                    total == threads[t].events[k + 1].total
                    d == 100 * index - v * total
                IN  2 * (IF d < 0 THEN -d ELSE d) <= total

\* C10 (amended): every percent is index/total*100 truncated to an integer, or
\* one less than that where index/total is exactly 0.29, 0.57 or 0.58 (the
\* double-precision product falls short of the integer); it lies in 0..100,
\* no earlier percent of the run is greater, and it is 100 when index = total.
C10_PercentIsTruncated ==
    \A t \in DOMAIN threads :
        LET e == threads[t].events
        IN  /\ \A k \in 1..Len(e) :
                  PercentAt(threads[t], k) =>
                      LET v == e[k].value
                          index == e[k + 1].current
                          total == e[k + 1].total
                          short == 100 * index \in {29 * total, 57 * total, 58 * total}
                          w == IF short THEN v + 1 ELSE v
                      IN  /\ IsCount(e[k + 1])
                          /\ 1 <= index /\ index <= total
                          /\ w * total <= 100 * index
                          /\ 100 * index < (w + 1) * total
                          /\ v \in 0..100
                          /\ index = total => v = 100
            /\ (threads[t].pc = "loop" /\ Len(e) >= 2 /\ IsPercent(e[Len(e) - 1])) =>
                  \A j \in 1..(Len(e) - 2) :
                      IsPercent(e[j]) => e[j].value <= e[Len(e) - 1].value

\* Item 29 of 50 reported as 57 percent.
C10_Witness ==
    \E t \in DOMAIN threads :
        \E k \in 1..Len(threads[t].events) :
            /\ PercentAt(threads[t], k)
            /\ threads[t].events[k].value = 57
            /\ threads[t].events[k + 1].current = 29
            /\ threads[t].events[k + 1].total = 50

(***************************************************************************)
(* Properties of a batch in the window                                     *)
(***************************************************************************)

\* The completion signal of thread t is emitted and not yet handled.
FinishPending(t) ==
    \E k \in 1..Len(queue) :
        queue[k].thread = t /\ queue[k].signal = FinishedProcessing

\* Thread t is between _start_processing and the handling of its completion
\* signal.
Running(t) == threads[t].pc # "done" \/ FinishPending(t)

\* C11: while a batch is between _start_processing and the handling of its
\* completion signal, no step changes the list its processor iterates over,
\* nor its operation, output directory or parameters; and the length run read
\* at its start is the length of the list throughout the loop.
C11_JobImmutable ==
    /\ [](\A t \in DOMAIN threads :
            threads[t].pc = "loop" => threads[t].total_files = Len(selected_files))
    /\ [][\A t \in DOMAIN threads :
            Running(t) =>
                /\ selected_files' = selected_files
                /\ threads'[t].operation = threads[t].operation
                /\ threads'[t].output_dir = threads[t].output_dir
                /\ threads'[t].kwargs = threads[t].kwargs]_vars

\* A batch in its loop after the user changed the directory policy, the output
\* directory and a rename text: the window no longer shows what the processor
\* was given.
C11_Witness ==
    \E t \in DOMAIN threads :
        /\ threads[t].pc = "loop"
        /\ threads[t].i >= 1
        /\ threads[t].i < Len(selected_files)
        /\ threads[t].output_dir = <<>>
        /\ ~use_original_dir_cb
        /\ output_directory # <<>>
        /\ Rule(threads[t].kwargs.replace_text, threads[t].kwargs.with_text,
                threads[t].kwargs.prefix_text) # RenameInputs

\* The three buttons that start a batch are disabled.
StartDisabled == ~enabled.resize /\ ~enabled.invert /\ ~enabled.rename_only

\* C12: at most one processor is running; from _start_processing to the
\* handling of the completion signal the three start buttons stay disabled,
\* whatever the check box does to the directory picker; and a processor is
\* created only when every earlier one has returned and its completion signal
\* has been handled.
C12_OneBatchAtATime ==
    /\ [](/\ Cardinality({t \in DOMAIN threads : Running(t)}) <= 1
          /\ (\E t \in DOMAIN threads : Running(t)) => StartDisabled)
    /\ [][Len(threads') > Len(threads) =>
            /\ \A t \in DOMAIN threads : ~Running(t)
            /\ ~StartDisabled]_vars

\* A second batch in its loop after the first has completed, the directory
\* picker enabled again by the check box while the start buttons are disabled.
C12_Witness ==
    /\ Len(threads) = 2
    /\ threads[1].pc = "done"
    /\ ~FinishPending(1)
    /\ threads[2].pc = "loop"
    /\ threads[2].i >= 1
    /\ enabled.select_output
    /\ StartDisabled

====
